---- MODULE Spec2Model ----
(***************************************************************************)
(* Finite field arithmetic over the 32-bit prime 2^32 - 2^20 + 1           *)
(* (src/src/finite_field.rs).                                              *)
(*                                                                         *)
(* The machine integers of the program (u32, u64, i32) exceed the range    *)
(* of the model checker's integers, so an unsigned value is a triple of    *)
(* groups of nine decimal digits, the least significant group first, and   *)
(* a signed value is a sign and a magnitude.                               *)
(* Every machine operation of the source is an operator on these values    *)
(* that returns the value the operation stores together with the set of    *)
(* faults it raised, so that widths, wraparound and conversions are those  *)
(* of the source.                                                          *)
(***************************************************************************)
EXTENDS Integers, Sequences, FiniteSets, TLC

----------------------------------------------------------------------------
(* Naturals below 10^27 as three groups of nine decimal digits.  For the   *)
(* digit by digit algorithms (product, long division) a natural is read as *)
(* nine pieces of three decimal digits, piece 0 the least significant.     *)

\* F applied to the value of v: names an intermediate result that is used
\* more than once, and computes it first.
Let(v, F(_)) == CHOOSE r \in {F(w) : w \in {v}} : TRUE

Group == 10 ^ 9
Piece3 == 10 ^ 3

\* The natural hi * 10^9 + lo.
Num(hi, lo) == <<lo, hi, 0>>

Zero == Num(0, 0)
One == Num(0, 1)
Two == Num(0, 2)

LtGroups(a, b) ==
    \/ a[3] < b[3]
    \/ a[3] = b[3] /\ a[2] < b[2]
    \/ a[3] = b[3] /\ a[2] = b[2] /\ a[1] < b[1]

Lt(a, b) == Let(<<a, b>>, LAMBDA t : LtGroups(t[1], t[2]))

Ge(a, b) == ~Lt(a, b)

PlusGroups(a, b) ==
    <<(a[1] + b[1]) % Group,
      (a[2] + b[2] + ((a[1] + b[1]) \div Group)) % Group,
      (a[3] + b[3] + ((a[2] + b[2] + ((a[1] + b[1]) \div Group)) \div Group))
          % Group>>

Plus(a, b) == Let(<<a, b>>, LAMBDA t : PlusGroups(t[1], t[2]))

MinusGroups(a, b) ==
    <<(a[1] - b[1]) % Group,
      (a[2] - b[2] + ((a[1] - b[1]) \div Group)) % Group,
      (a[3] - b[3] + ((a[2] - b[2] + ((a[1] - b[1]) \div Group)) \div Group))
          % Group>>

\* a - b for a >= b.
Minus(a, b) == Let(<<a, b>>, LAMBDA t : MinusGroups(t[1], t[2]))

\* Piece i of a, for i in 0..8.
Piece(a, i) == (a[(i \div 3) + 1] \div (Piece3 ^ (i % 3))) % Piece3

\* The natural whose piece i is P(i) for i in 0..8, and 0 for an i outside.
Pieces(P(_)) ==
    <<P(0) + Piece3 * (P(1) + Piece3 * P(2)),
      P(3) + Piece3 * (P(4) + Piece3 * P(5)),
      P(6) + Piece3 * (P(7) + Piece3 * P(8))>>

\* The number of pieces of the group g, and of a, up to the leading
\* non-zero piece.
GroupLen(g) ==
    IF g >= Piece3 * Piece3 THEN 3
    ELSE IF g >= Piece3 THEN 2
    ELSE IF g > 0 THEN 1
    ELSE 0

PieceLen(a) ==
    IF a[3] > 0 THEN 6 + GroupLen(a[3])
    ELSE IF a[2] > 0 THEN 3 + GroupLen(a[2])
    ELSE GroupLen(a[1])

\* The groups u, each below 2^31 - 2, with the carries moved up.
Carry(u) ==
    <<u[1] % Group,
      (u[2] + (u[1] \div Group)) % Group,
      (u[3] + ((u[2] + (u[1] \div Group)) \div Group)) % Group>>

\* a * 10^3 + p for a piece p and a < 10^24, and floor(a / 10^(3k)).
ShiftGroups(a, p) ==
    <<(a[1] % (Piece3 * Piece3)) * Piece3 + p,
      (a[2] % (Piece3 * Piece3)) * Piece3 + (a[1] \div (Piece3 * Piece3)),
      (a[3] % (Piece3 * Piece3)) * Piece3 + (a[2] \div (Piece3 * Piece3))>>

ShiftIn(a, p) == Let(a, LAMBDA u : ShiftGroups(u, p))
ShiftOut(a, k) == Pieces(LAMBDA i : IF i + k > 8 THEN 0 ELSE Piece(a, i + k))

\* g * d for a group g and a piece d, as <<low, high>>: the product is
\* high * 10^9 + low, with low < 2 * 10^9 and high < 10^3.
MulGroup(g, d) ==
    <<(((g \div (Piece3 * Piece3)) * d) % Piece3) * (Piece3 * Piece3)
          + (g % (Piece3 * Piece3)) * d,
      ((g \div (Piece3 * Piece3)) * d) \div Piece3>>

\* a * d for a piece d and a < 10^24.
MulPieceGroups(a, d) ==
    Carry(<<MulGroup(a[1], d)[1],
            MulGroup(a[2], d)[1] + MulGroup(a[1], d)[2],
            MulGroup(a[3], d)[1] + MulGroup(a[2], d)[2]>>)

MulPiece(a, d) == Let(<<a, d>>, LAMBDA t : MulPieceGroups(t[1], t[2]))

\* a * b for a < 10^12 and b < 10^12, the pieces of b from piece j up:
\* one product by a piece per step, the most significant piece first.
RECURSIVE TimesFrom(_, _, _)
TimesFrom(a, b, j) ==
    IF j >= PieceLen(b) THEN Zero
    ELSE Let(TimesFrom(a, b, j + 1), LAMBDA h :
            Plus(MulPiece(a, Piece(b, j)), ShiftIn(h, 0)))

Times(a, b) == TimesFrom(a, b, 0)

\* The pieces i, i + 1, i + 2 of a as one integer.
Top3(a, i) ==
    (Piece(a, i + 2) * Piece3 + Piece(a, i + 1)) * Piece3 + Piece(a, i)

\* floor(c / b) for b > 0 and c < b * 10^3, one digit of a long division:
\* the leading pieces of c and of b give a digit that is not too small, and
\* the digit is lowered while its product with b exceeds c.
RECURSIVE Lower(_, _, _)
Lower(c, b, d) == IF Lt(c, MulPiece(b, d)) THEN Lower(c, b, d - 1) ELSE d

QuotDigit(c, b) ==
    IF PieceLen(b) <= 2 THEN c[1] \div b[1]
    ELSE Lower(c, b, Top3(c, PieceLen(b) - 2) \div Top3(b, PieceLen(b) - 2))

\* One step of the long division by b: the quotient q and the remainder c
\* so far, c with the next piece of the dividend already shifted in.
LongDivStep(q, c, b) ==
    Let(QuotDigit(c, b), LAMBDA d : <<ShiftIn(q, d), Minus(c, MulPiece(b, d))>>)

\* <<floor(n / b), n mod b>> for b > 0 and n the pieces of a from piece i up.
RECURSIVE LongDiv(_, _, _)
LongDiv(a, b, i) ==
    IF i + PieceLen(b) > PieceLen(a) THEN <<Zero, ShiftOut(a, i)>>
    ELSE Let(LongDiv(a, b, i + 1), LAMBDA h :
         Let(ShiftIn(h[2], Piece(a, i)), LAMBDA c :
            LongDivStep(h[1], c, b)))

\* For b > 0 and a < 10^24.
DivMod(a, b) == LongDiv(a, b, 0)

Quot(a, b) == DivMod(a, b)[1]
Rem(a, b) == DivMod(a, b)[2]

----------------------------------------------------------------------------
(* Machine integers.  An operation returns [v |-> stored value, f |-> the  *)
(* faults raised].  "overflow" is an overflow or underflow of a checked    *)
(* +, - or *: a build with overflow checks panics there, a build without   *)
(* them stores the wrapped value, which is the one carried in v.  "div0"   *)
(* is a division by zero, and "cast" an `as` conversion that changed the   *)
(* value.                                                                  *)

\* 2^31, 2^32 and 2^64: the ranges of i32, u32 and u64.
TwoTo31 == Num(2, 147483648)
TwoTo32 == Plus(TwoTo31, TwoTo31)
TwoTo64 == Times(TwoTo32, TwoTo32)

Ok(v) == [v |-> v, f |-> {}]

\* The value v, wrapped into 0 .. m - 1 when it is not there.
WrapTo(v, m, fault) ==
    Let(v, LAMBDA w :
        IF Lt(w, m) THEN Ok(w) ELSE [v |-> Rem(w, m), f |-> {fault}])

\* u32 +, -, *, /
U32Add(a, b) == WrapTo(Plus(a, b), TwoTo32, "overflow")

U32Sub(a, b) ==
    IF Ge(a, b) THEN Ok(Minus(a, b))
    ELSE [v |-> Minus(Plus(a, TwoTo32), b), f |-> {"overflow"}]

U32Mul(a, b) == WrapTo(Times(a, b), TwoTo32, "overflow")

U32Div(a, b) ==
    IF b = Zero THEN [v |-> Zero, f |-> {"div0"}]
    ELSE Ok(Quot(a, b))

\* u64 *, %
U64Mul(a, b) == WrapTo(Times(a, b), TwoTo64, "overflow")

U64Rem(a, b) ==
    IF b = Zero THEN [v |-> Zero, f |-> {"div0"}]
    ELSE Ok(Rem(a, b))

\* u64 as u32
U64AsU32(a) == WrapTo(a, TwoTo32, "cast")

\* i32: a sign and a magnitude, zero is not negative.
Signed(neg, mag) == Let(mag, LAMBDA m : [neg |-> neg /\ m # Zero, mag |-> m])

InI32(i) == IF i.neg THEN ~Lt(TwoTo31, i.mag) ELSE Lt(i.mag, TwoTo31)

\* The i32 whose two's complement bits are the u32 u.
FromBits(u) ==
    IF Lt(u, TwoTo31) THEN Signed(FALSE, u)
    ELSE Signed(TRUE, Minus(TwoTo32, u))

\* The two's complement bits of the integer i, modulo 2^32.
Bits(i) ==
    Let(Rem(i.mag, TwoTo32), LAMBDA m :
        IF i.neg /\ m # Zero THEN Minus(TwoTo32, m) ELSE m)

I32Checked(i) ==
    Let(i, LAMBDA j :
        IF InI32(j) THEN Ok(j)
        ELSE [v |-> FromBits(Bits(j)), f |-> {"overflow"}])

\* i32 -, *
I32Sub(i, j) ==
    I32Checked(IF i.neg # j.neg THEN Signed(i.neg, Plus(i.mag, j.mag))
               ELSE IF Ge(i.mag, j.mag) THEN Signed(i.neg, Minus(i.mag, j.mag))
               ELSE Signed(~i.neg, Minus(j.mag, i.mag)))

I32Mul(i, j) == I32Checked(Signed(i.neg # j.neg, Times(i.mag, j.mag)))

\* u32 as i32
U32AsI32(a) ==
    [v |-> FromBits(a), f |-> IF Lt(a, TwoTo31) THEN {} ELSE {"cast"}]

\* i32 as u32: the two's complement bit pattern.
I32AsU32(i) == IF i.neg THEN Minus(TwoTo32, i.mag) ELSE i.mag

\* u32::overflowing_add: the wrapped sum, never a fault.
OverflowingAdd(a, b) == WrapTo(Plus(a, b), TwoTo32, "none").v

----------------------------------------------------------------------------
(* The field.  A Field is the u32 it wraps.                                *)

MODULUS == Num(4, 293918721)

\* sub without the branch for l < r.
subNoBranch(l, r) == U32Sub(l, r)

\* sub with the terms of the l < r branch in the order l - r + MODULUS.
subReordered(l, r) ==
    IF Ge(l, r) THEN U32Sub(l, r)
    ELSE Let(U32Sub(l, r), LAMBDA t :
         Let(U32Add(t.v, MODULUS), LAMBDA s :
            [v |-> s.v, f |-> t.f \cup s.f]))

\* impl Sub for Field
sub(l, r) ==
    IF Ge(l, r) THEN U32Sub(l, r)
    ELSE Let(U32Sub(MODULUS, r), LAMBDA t :
         Let(U32Add(t.v, l), LAMBDA s :
            [v |-> s.v, f |-> t.f \cup s.f]))

\* add as the sum of the two u32.
addPlain(l, r) == U32Add(l, r)

\* impl Add for Field
add(l, r) ==
    Let(U32Sub(MODULUS, r), LAMBDA t :
    Let(sub(l, t.v), LAMBDA s :
        [v |-> s.v, f |-> t.f \cup s.f]))

\* mul with the product taken in u32.
mulNarrow(l, r) ==
    Let(U32Mul(l, r), LAMBDA m :
    Let(U64Rem(m.v, MODULUS), LAMBDA d :
        [v |-> d.v, f |-> m.f \cup d.f]))

\* impl Mul for Field
mul(l, r) ==
    Let(U64Mul(l, r), LAMBDA m :
    Let(U64Rem(m.v, MODULUS), LAMBDA d :
    Let(U64AsU32(d.v), LAMBDA n :
        [v |-> n.v, f |-> m.f \cup d.f \cup n.f])))

\* inv with the two coefficients initialised the other way round.
InvInitSwapped(a) ==
    [x1 |-> Signed(FALSE, Zero), a1 |-> a, x0 |-> Signed(FALSE, One),
     a2 |-> MODULUS, q |-> Zero, f |-> {}]

\* Field::inv, the state of the loop: the locals at `while a2 != 0`, and
\* the faults raised so far.
InvInit(a) ==
    [x1 |-> Signed(FALSE, One), a1 |-> a, x0 |-> Signed(FALSE, Zero),
     a2 |-> MODULUS, q |-> Zero, f |-> {}]

\* a2 != 0
InvTest(s) == s.a2 # Zero

\* One iteration of the loop body.
InvBody(s) ==
    Let(U32AsI32(s.q), LAMBDA c :
    Let(I32Mul(c.v, s.x1), LAMBDA m :
    Let(I32Sub(s.x0, m.v), LAMBDA x2 :
    Let(U32Div(s.a1, s.a2), LAMBDA q :
    Let(U32Mul(q.v, s.a2), LAMBDA t :
    Let(U32Sub(s.a1, t.v), LAMBDA a2 :
        [x1 |-> x2.v, a1 |-> s.a2, x0 |-> s.x1, a2 |-> a2.v, q |-> q.v,
         f |-> s.f \cup c.f \cup m.f \cup x2.f \cup q.f \cup t.f \cup a2.f]))))))

\* A loop is run for at most 2^LoopDepth iterations; one that has not
\* ended by then is reported as the fault "diverged".
LoopDepth == 6

\* The loop from s, where the test holds, for at most 2^k iterations.
RECURSIVE InvRun(_, _)
InvRun(s, k) ==
    IF k = 0 THEN InvBody(s)
    ELSE Let(InvRun(s, k - 1), LAMBDA h :
            IF InvTest(h) THEN InvRun(h, k - 1) ELSE h)

InvLoop(s) == IF InvTest(s) THEN InvRun(s, LoopDepth) ELSE s

\* inv returning x1 as u32 whatever its sign.
InvExitCast(s) == I32AsU32(s.x1)

\* The value returned after the loop.
InvExit(s) ==
    IF s.x1.neg THEN OverflowingAdd(MODULUS, I32AsU32(s.x1))
    ELSE I32AsU32(s.x1)

inv(a) ==
    Let(InvLoop(InvInit(a)), LAMBDA s :
        [v |-> InvExit(s),
         f |-> s.f \cup (IF InvTest(s) THEN {"diverged"} ELSE {})])

\* div multiplying by rhs itself.
divNoInv(l, r) == mul(l, r)

\* impl Div for Field
div(l, r) ==
    Let(inv(r), LAMBDA i :
    Let(mul(l, i.v), LAMBDA m :
        [v |-> m.v, f |-> i.f \cup m.f]))

\* pow with the accumulator starting at the base.
PowInitBase(b, e) == [base |-> b, exp |-> e, result |-> b, f |-> {}]

\* Field::pow, the state of the loops: the locals, and the faults so far.
PowInit(b, e) == [base |-> b, exp |-> e, result |-> One, f |-> {}]

\* exp > 0
PowOuterTest(s) == Lt(Zero, s.exp)

\* (exp & 1) == 0
PowInnerTest(s) == s.exp[1] % 2 = 0

\* The inner loop body without exp /= 2.
PowInnerBodyNoHalve(s) ==
    Let(mul(s.base, s.base), LAMBDA b :
        [s EXCEPT !.base = b.v, !.f = s.f \cup b.f])

\* exp /= 2; base *= base
PowInnerBody(s) ==
    Let(U32Div(s.exp, Two), LAMBDA e :
    Let(mul(s.base, s.base), LAMBDA b :
        [s EXCEPT !.exp = e.v, !.base = b.v, !.f = s.f \cup e.f \cup b.f]))

RECURSIVE PowInnerRun(_, _)
PowInnerRun(s, k) ==
    IF k = 0 THEN PowInnerBody(s)
    ELSE Let(PowInnerRun(s, k - 1), LAMBDA h :
            IF PowInnerTest(h) THEN PowInnerRun(h, k - 1) ELSE h)

PowInnerLoop(s) == IF PowInnerTest(s) THEN PowInnerRun(s, LoopDepth) ELSE s

\* exp -= 1; result *= base
PowOuterTail(s) ==
    Let(U32Sub(s.exp, One), LAMBDA e :
    Let(mul(s.result, s.base), LAMBDA r :
        [s EXCEPT !.exp = e.v, !.result = r.v, !.f = s.f \cup e.f \cup r.f]))

\* One iteration of the outer loop body.
PowOuterBody(s) ==
    Let(PowInnerLoop(s), LAMBDA h :
        IF PowInnerTest(h) THEN [h EXCEPT !.f = h.f \cup {"diverged"}]
        ELSE PowOuterTail(h))

RECURSIVE PowOuterRun(_, _)
PowOuterRun(s, k) ==
    IF k = 0 THEN PowOuterBody(s)
    ELSE Let(PowOuterRun(s, k - 1), LAMBDA h :
            IF PowOuterTest(h) /\ "diverged" \notin h.f
            THEN PowOuterRun(h, k - 1) ELSE h)

PowOuterLoop(s) == IF PowOuterTest(s) THEN PowOuterRun(s, LoopDepth) ELSE s

pow(b, e) ==
    Let(PowOuterLoop(PowInit(b, e)), LAMBDA s :
        [v |-> s.result,
         f |-> s.f \cup (IF PowOuterTest(s) THEN {"diverged"} ELSE {})])

\* impl From<u32> for Field
from(r) == Rem(r, MODULUS)

\* #[derive(Default)]: the default of u32.
Default == Zero

\* #[derive(Deserialize)] on the newtype: the decoded u32 is stored as it is.
Deserialize(raw) == raw

----------------------------------------------------------------------------
(* The program.  Two elements x and y are built from raw integers or by    *)
(* default.  A run is a sequence of operations on x and y.  The compound   *)
(* assignments store their result in x, and so do the calls x = x.inv()    *)
(* and x = x.pow(y.0), so that every result is an operand of the operations *)
(* that follow.  The binary forms read x and y and write neither: what one *)
(* computes does not depend on where it stands in the run, so it ends the  *)
(* run.  op, lhs, rhs, out and flt record the last operation, its          *)
(* operands, its result and the faults it raised.  pc is "idle" while the  *)
(* run goes on and "done" once it has ended; inside a call of inv or pow   *)
(* that is followed iteration by iteration, pc is the position in the call *)
(* and lp holds its locals.                                                *)

VARIABLES x, y, op, lhs, rhs, out, flt, n, pc, lp

vars == <<x, y, op, lhs, rhs, out, flt, n, pc, lp>>

\* Raw integers within Span of 0 and of the modulus are given to From.
Span == 1
\* The operations of a run.
MaxOps == 2

Small(k) == Num(0, k)

U32Max == Minus(TwoTo32, One)

\* The raw integers: near 0, near the modulus on both sides, the largest
\* u32, and one in the middle.
RawInputs ==
    {Small(k) : k \in 0..Span}
        \cup {Minus(MODULUS, Small(k)) : k \in 0..Span}
        \cup {Plus(MODULUS, Small(k)) : k \in 1..Span}
        \cup {U32Max, Num(0, 123123123)}

Elems == {from(r) : r \in RawInputs} \cup {Default}

NoLocals == [f |-> {}]

Init ==
    /\ x \in Elems
    /\ y \in Elems
    /\ op = "new"
    /\ lhs = x
    /\ rhs = y
    /\ out = x
    /\ flt = {}
    /\ n = 0
    /\ pc = "idle"
    /\ lp = NoLocals

Running == pc = "idle" /\ n < MaxOps

\* out = l <name> r, the binary form.
Binary(name, l, r, res) ==
    /\ Running
    /\ op' = name
    /\ lhs' = l
    /\ rhs' = r
    /\ out' = res.v
    /\ flt' = res.f
    /\ n' = n + 1
    /\ pc' = "done"
    /\ UNCHANGED <<x, y, lp>>

\* x = l <name> r, the result stored in x.
Assign(name, l, r, res) ==
    /\ Running
    /\ x' = res.v
    /\ op' = name
    /\ lhs' = l
    /\ rhs' = r
    /\ out' = res.v
    /\ flt' = res.f
    /\ n' = n + 1
    /\ UNCHANGED <<y, pc, lp>>

Add == Binary("add", x, y, add(x, y))
Sub == Binary("sub", x, y, sub(x, y))
Mul == Binary("mul", x, y, mul(x, y))
Div == Binary("div", x, y, div(x, y))

\* x = x.inv() and x = x.pow(y.0)
Inv == Assign("inv", x, Zero, inv(x))
Pow == Assign("pow", x, y, pow(x, y))

\* impl AddAssign, SubAssign, MulAssign, DivAssign for Field:
\* *self = *self <op> rhs
add_assign == Assign("add", x, y, add(x, y))
sub_assign == Assign("sub", x, y, sub(x, y))
mul_assign == Assign("mul", x, y, mul(x, y))
div_assign == Assign("div", x, y, div(x, y))

Next ==
    \/ Add
    \/ Sub
    \/ Mul
    \/ Div
    \/ Inv
    \/ Pow
    \/ add_assign
    \/ sub_assign
    \/ mul_assign
    \/ div_assign

Spec == Init /\ [][Next]_vars

----------------------------------------------------------------------------
(* The loops of inv and pow, one test or one iteration at a time, on the   *)
(* elements x and y.  The program is sequential: a call that can take a    *)
(* step takes it.                                                          *)

Enter(name, l, r, locals, at) ==
    /\ pc = "idle"
    /\ op' = name
    /\ lhs' = l
    /\ rhs' = r
    /\ lp' = locals
    /\ pc' = at
    /\ UNCHANGED <<x, y, out, flt, n>>

Step(locals, at) ==
    /\ lp' = locals
    /\ pc' = at
    /\ UNCHANGED <<x, y, op, lhs, rhs, out, flt, n>>

Return(v) ==
    /\ out' = v
    /\ flt' = lp.f
    /\ n' = n + 1
    /\ pc' = "done"
    /\ UNCHANGED <<x, y, op, lhs, rhs, lp>>

InvEnter == Enter("inv", x, Zero, InvInit(x), "inv_while")
InvIter == pc = "inv_while" /\ InvTest(lp) /\ Step(InvBody(lp), "inv_while")
InvReturn == pc = "inv_while" /\ ~InvTest(lp) /\ Return(InvExit(lp))

PowEnter == Enter("pow", x, y, PowInit(x, y), "pow_while")
PowOuter == pc = "pow_while" /\ PowOuterTest(lp) /\ Step(lp, "pow_inner")
PowInner ==
    pc = "pow_inner" /\ PowInnerTest(lp) /\ Step(PowInnerBody(lp), "pow_inner")
PowInnerExit ==
    pc = "pow_inner" /\ ~PowInnerTest(lp) /\ Step(PowOuterTail(lp), "pow_while")
PowReturn == pc = "pow_while" /\ ~PowOuterTest(lp) /\ Return(lp.result)

LoopNext ==
    \/ InvEnter
    \/ InvIter
    \/ InvReturn
    \/ PowEnter
    \/ PowOuter
    \/ PowInner
    \/ PowInnerExit
    \/ PowReturn

LoopSpec == Init /\ [][LoopNext]_vars /\ WF_vars(LoopNext)

----------------------------------------------------------------------------
(* Elements that arrive encoded: the run starts by decoding a raw u32 into *)
(* x or into y.                                                            *)

DecodeX(raw) ==
    /\ Running
    /\ n = 0
    /\ x' = Deserialize(raw)
    /\ op' = "deserialize"
    /\ lhs' = raw
    /\ rhs' = Zero
    /\ out' = Deserialize(raw)
    /\ flt' = {}
    /\ n' = n + 1
    /\ UNCHANGED <<y, pc, lp>>

Decode == \E raw \in RawInputs : DecodeX(raw)

WireNext == Decode \/ Next

WireSpec == Init /\ [][WireNext]_vars


----------------------------------------------------------------------------
(* The claims.                                                             *)

Canonical(v) == Ge(v, Zero) /\ Lt(v, MODULUS)

\* C1: starting from elements built by From<u32> or by default, after any
\* sequence of add, sub, mul, div, inv and pow and of their compound
\* assignments, every element (the operands x and y and the result out) has
\* a stored value v with 0 <= v < p; this includes the results of inv that
\* come from a negative coefficient, to which p is added.
CanonicalRange == Canonical(x) /\ Canonical(y) /\ Canonical(out)

\* A second operation of a run is an inv that left the loop with a negative
\* coefficient.
CanonicalRangeWitness ==
    /\ op = "inv"
    /\ n > 1
    /\ InvLoop(InvInit(lhs)).x1.neg
    /\ Canonical(out)

\* C2: for every canonical a # 0, a * inv(a) = 1 and inv(a) * a = 1, and
\* inv(0) = 0.
InverseLaw ==
    op = "inv" =>
        IF lhs = Zero THEN out = Zero
        ELSE mul(lhs, out).v = One /\ mul(out, lhs).v = One

\* inv has been applied to an element that is not its own inverse.
InverseLawWitness ==
    op = "inv" /\ lhs # Zero /\ out # lhs /\ mul(lhs, out).v = One

\* C3: add(a, b) is (a + b) mod p for all canonical a and b, b = 0 and
\* sums that wrap around p included.
AddReference == op = "add" => out = Rem(Plus(lhs, rhs), MODULUS)

\* (p - 1) + 1 = 0: a sum that is exactly p.
AddReferenceWitness ==
    op = "add" /\ lhs = Minus(MODULUS, One) /\ rhs = One /\ out = Zero

\* C4: div(mul(a, b), b) = a for all canonical a and b # 0, and
\* div(a, 0) = 0 for every canonical a.
DivisionConsistency ==
    /\ op = "mul" /\ rhs # Zero => div(out, rhs).v = lhs
    /\ op = "div" /\ rhs = Zero => out = Zero

\* A product of two elements other than 0 and 1 has been divided back.
DivisionConsistencyWitness ==
    /\ op = "mul"
    /\ Lt(One, lhs)
    /\ Lt(One, rhs)
    /\ out # lhs
    /\ div(out, rhs).v = lhs

\* a^e mod p by the recurrences a^0 = 1, a^(2k) = (a^k)^2 and
\* a^(2k+1) = (a^k)^2 * a, in unbounded arithmetic.
RECURSIVE RefPow(_, _)
RefPow(a, e) ==
    IF e = Zero THEN One
    ELSE Let(RefPow(a, Quot(e, Two)), LAMBDA h :
         Let(Rem(Times(h, h), MODULUS), LAMBDA h2 :
            IF e[1] % 2 = 0 THEN h2 ELSE Rem(Times(h2, a), MODULUS)))

\* C5: pow(a, e) is a^e mod p for all canonical a and e; pow(a, 0) = 1 for
\* every a, 0 included; pow(0, k) = 0 for every k # 0; pow(a, 1) = a.
PowReference ==
    op = "pow" =>
        /\ out = RefPow(lhs, rhs)
        /\ rhs = Zero => out = One
        /\ lhs = Zero /\ rhs # Zero => out = Zero
        /\ rhs = One => out = lhs

\* A base other than 0 and 1 has been raised to an exponent beyond Span.
PowReferenceWitness ==
    /\ op = "pow"
    /\ Lt(One, lhs)
    /\ Lt(Small(Span), rhs)
    /\ out # One
    /\ out = RefPow(lhs, rhs)

\* C6: for all canonical a and b, (a + b) - b = a, (a + b) - a = b and
\* a + b - a - b = 0, and a - a = 0.
Cancellation ==
    /\ op = "add" =>
        /\ sub(out, rhs).v = lhs
        /\ sub(out, lhs).v = rhs
        /\ sub(sub(out, lhs).v, rhs).v = Zero
    /\ op = "sub" /\ lhs = rhs => out = Zero

\* A sum that wrapped around p has been cancelled.
CancellationWitness ==
    /\ op = "add"
    /\ lhs # Zero
    /\ rhs # Zero
    /\ Lt(out, lhs)
    /\ sub(out, rhs).v = lhs

\* C7: a * (b + c) = a * b + a * c for all canonical a, b and c; mul is
\* commutative, 1 is its identity and 0 is absorbing.
Distributivity ==
    /\ op = "add" =>
        \A a \in Elems :
            mul(a, out).v = add(mul(a, lhs).v, mul(a, rhs).v).v
    /\ op = "mul" =>
        /\ out = mul(rhs, lhs).v
        /\ rhs = One => out = lhs
        /\ rhs = Zero => out = Zero

\* A sum of two non-zero elements has been multiplied by an element other
\* than 0 and 1, the two products adding up beyond p.
DistributivityWitness ==
    /\ op = "add"
    /\ lhs # Zero
    /\ rhs # Zero
    /\ \E a \in Elems :
        /\ Lt(One, a)
        /\ Ge(Plus(mul(a, lhs).v, mul(a, rhs).v), MODULUS)
        /\ mul(a, out).v = add(mul(a, lhs).v, mul(a, rhs).v).v

\* C8: on canonical operands no machine step of add, sub, mul, div, inv or
\* pow overflows or underflows its type or divides by zero; in inv every
\* coefficient, every executed conversion of q to i32 and every product
\* q * x1 is within i32, and a0 / a1 is never computed with a1 = 0.
NoFault == flt = {}

\* inv(2), whose coefficient goes down to -(p - 1) / 2, raised no fault.
NoFaultWitness ==
    /\ op = "inv"
    /\ lhs = Two
    /\ InvLoop(InvInit(lhs)).x1 = Signed(TRUE, Quot(Minus(MODULUS, One), Two))
    /\ flt = {}

\* C9: every element decoded from a raw u32, a raw value >= p included,
\* has a stored value in [0, p).
DecodeCanonical == op = "deserialize" => Canonical(out)

\* C10: for every canonical input the loop of inv reaches a2 = 0, a2
\* strictly decreasing from one iteration to the next, and the loops of pow
\* reach exp = 0, the inner loop being entered only with exp > 0.
LoopsTerminate ==
    /\ <>(pc = "done")
    /\ [][InvIter => Lt(lp'.a2, lp.a2)]_vars
    /\ [](pc = "pow_inner" => Lt(Zero, lp.exp))

\* A call of pow with an exponent beyond Span has returned.
LoopsTerminateWitness ==
    pc = "done" /\ op = "pow" /\ Lt(Small(Span), rhs) /\ lp.exp = Zero

====
